---------------------------- MODULE Spec2Model ----------------------------
(* Model of apkReforge.py: the pipeline driven by APKReforge.process_apk    *)
(* (preflight, rebuild, align, sign, optional install, cleanup), one step   *)
(* per external invocation.  External tools are the environment: every      *)
(* invocation made through run_command draws its outcome from Outcomes.     *)
EXTENDS Integers, Sequences, FiniteSets, TLC

VARIABLES
    req,            \* the request: input directory, output path, install flag, keystore
    tools,          \* the tools shutil.which resolves on this machine
    fs,             \* files: debug keystore, temp keystore, output artifact, working area
    pc,             \* position of the run inside main / process_apk
    temp_dir,       \* self.temp_dir
    log,            \* external invocations made by the current run, in order
    res,            \* result reported by each phase of the current run
    ret,            \* value process_apk returns ("none" until it is decided)
    exitCode,       \* value main returns (-1 until it returns)
    keystore_path,  \* keystore resolved in sign_apk
    devices,        \* install_apk's lines of the bridge's listing
    active_devices, \* install_apk's list of targets
    idx,            \* position of install_apk's loop in active_devices
    success,        \* install_apk's success flag
    prev            \* what the previous run of the tool did (keystore, key generation)

vars == <<req, tools, fs, pc, temp_dir, log, res, ret, exitCode,
          keystore_path, devices, active_devices, idx, success, prev>>

-----------------------------------------------------------------------------
(* Bounds *)
MaxDevices == 2
MaxSdk == 35

(* Program constants *)
HighSdk == 34

Tools == {"apktool", "zipalign", "apksigner", "adb", "keytool"}

None == "<None>"
DebugKeystore == "~/.android/debug.keystore"
TempKeystore == "tmp/apkreforge.keystore"
InputDir == "input_dir"
OutputApk == "final_app.apk"
TempDir == "tmp/apkreforge_X"
RebuiltApk == "tmp/apkreforge_X/unsigned.apk"
AlignedApk == "tmp/apkreforge_X/aligned.apk"

NoMatch == -1

\* what subprocess.run(text=True, timeout=120) can do: the process exits with
\* status zero and its output decodes; it exits non-zero; it outlives the
\* timeout; it cannot be launched; it exits with status zero but its captured
\* output is not valid text, so decoding raises after the process has finished
Outcomes == {"zero", "nonzero", "timeout", "launcherr", "decodeerr"}

\* the process ran to its end with status zero
ExitedZero(outcome) == outcome \in {"zero", "decodeerr"}

\* what a launched tool can have done to the file it is asked to write by the
\* time subprocess.run returns or raises: written it or not, whatever its exit
\* status (written and then exited non-zero or was killed at the timeout,
\* exited zero without writing); a process that was never launched wrote nothing
Writes(outcome) == IF outcome = "launcherr" THEN {FALSE} ELSE BOOLEAN

Phases == {"preflight", "rebuild", "align", "sign", "install"}

-----------------------------------------------------------------------------
(* Values and helpers *)

\* Optional[str] truthiness: None and "" are falsy (line 152, line 230)
Truthy(s) == s # None /\ s # ""

\* one external invocation: argv summarised as op, the path read, the path
\* written, the install target, what happened to the process, and whether the
\* process left a file at the keystore / output path it was given
Cmd(op, src, dst, target, rc) ==
    [op |-> op, src |-> src, dst |-> dst, target |-> target, rc |-> rc,
     wrote |-> FALSE]

\* run_command lines 89-116: True only from line 109, reached when
\* subprocess.run returned (launched, in time, output decoded) with status
\* zero; every exception, the decoding error included, gives False
run_command(outcome) == outcome = "zero"

\* the input directory as main and the Rebuilding phase see it
Inputs ==
    {[dir |-> FALSE, manifest |-> FALSE, readable |-> FALSE, sdk |-> NoMatch],
     [dir |-> TRUE, manifest |-> FALSE, readable |-> FALSE, sdk |-> NoMatch],
     [dir |-> TRUE, manifest |-> TRUE, readable |-> FALSE, sdk |-> NoMatch]}
    \cup {[dir |-> TRUE, manifest |-> TRUE, readable |-> TRUE, sdk |-> v] :
              v \in {NoMatch} \cup (33..MaxSdk)}

Keystores == {None, "", "my_keystore.jks"}

Requests ==
    [input : Inputs, output : {OutputApk}, install : BOOLEAN, keystore : Keystores]

\* check_dependencies: tool -> found on the search path
check_dependencies == [t \in Tools |-> t \in tools]

\* Missing with the gate looking only at the three always-used tools
MissingOnlyBuildTools(deps) ==
    {t \in DOMAIN deps \ {"adb", "keytool"} : ~deps[t]}

\* Missing that asks only for the tools this request will use
MissingNeededOnly(deps) ==
    {t \in DOMAIN deps :
        /\ ~deps[t]
        /\ t = "adb" => req.install
        /\ t = "keytool" => (~Truthy(req.keystore) /\ ~fs.debugKs)}

\* process_apk line 246: the tools reported absent
Missing(deps) == {t \in DOMAIN deps : ~deps[t]}

\* HasManifest testing the directory instead of the marker file in it
HasManifestIsDir(inp) == inp.dir

\* rebuild_apk line 120
HasManifest(inp) == inp.manifest

\* detect_high_sdk with the threshold compared strictly
DetectHighSdkStrict(inp) ==
    IF ~inp.manifest THEN FALSE
    ELSE IF ~inp.readable THEN FALSE
    ELSE IF inp.sdk # NoMatch THEN inp.sdk > HighSdk
    ELSE FALSE

\* detect_high_sdk: first targetSdkVersion="<digits>" of the manifest, >= 34
detect_high_sdk(inp) ==
    IF ~inp.manifest THEN FALSE
    ELSE IF ~inp.readable THEN FALSE
    ELSE IF inp.sdk # NoMatch THEN inp.sdk >= HighSdk
    ELSE FALSE

\* rebuild_apk lines 123-129: the first argv
FirstBuildOp(inp) == IF detect_high_sdk(inp) THEN "b --use-aapt2" ELSE "b"

NoResults == [p \in Phases |-> "none"]

NoPrev == [ran |-> FALSE, keystore |-> None, generated |-> FALSE, exit |-> -1]

-----------------------------------------------------------------------------
(* The device bridge's listing, as text: install_apk lines 211-216 *)

Tab == "\t"
\* what the bridge can print after the tab: ready, two states that are not,
\* and a text that is not "device" but begins with it
DeviceStates == {"device", "offline", "unauthorized", "devices"}

\* the characters of a reported state
StateText(st) ==
    CASE st = "device" -> <<"d", "e", "v", "i", "c", "e">>
      [] st = "devices" -> <<"d", "e", "v", "i", "c", "e", "s">>
      [] st = "offline" -> <<"o", "f", "f", "l", "i", "n", "e">>
      [] st = "unauthorized" ->
            <<"u", "n", "a", "u", "t", "h", "o", "r", "i", "z", "e", "d">>

Serial(i) == <<"S", ToString(i)>>

\* one line of `adb devices`: serial, a tab, the state
DeviceLine(i, st) == Serial(i) \o <<Tab>> \o StateText(st)

HeaderLine == <<"List of devices attached">>

\* the listings the bridge can print: nothing at all, or the header, up to
\* MaxDevices targets and the closing empty line
Stdouts ==
    {<<>>} \cup
    UNION {{<<HeaderLine>> \o [i \in 1..n |-> DeviceLine(i, sts[i])] \o <<<<>>>> :
                sts \in [1..n -> DeviceStates]} : n \in 0..MaxDevices}

\* Python's `sub in s`
Contains(sub, s) ==
    \E i \in 1..(Len(s) - Len(sub) + 1) : SubSeq(s, i, i + Len(sub) - 1) = sub

\* Python's s.split('\t')[0]
RECURSIVE SplitFirst(_)
SplitFirst(s) ==
    IF s = <<>> \/ Head(s) = Tab THEN <<>> ELSE <<Head(s)>> \o SplitFirst(Tail(s))

\* line 216: the filter of the list comprehension
IsActive(d) == Contains(<<Tab>> \o StateText("device"), d)

\* line 216: active_devices
ActiveDevices(lines) ==
    LET rest == IF lines = <<>> THEN <<>> ELSE Tail(lines)
        kept == SelectSeq(rest, IsActive)
    IN  [k \in 1..Len(kept) |-> SplitFirst(kept[k])]

-----------------------------------------------------------------------------
(* State after construction: a machine, a request, nothing run yet *)

Init ==
    /\ req \in Requests
    /\ tools \in SUBSET Tools
    /\ fs \in [debugKs : BOOLEAN, tempKs : {FALSE}, out : {FALSE}, tmpdir : {FALSE}]
    /\ pc = "main"
    /\ temp_dir = None
    /\ log = <<>>
    /\ res = NoResults
    /\ ret = "none"
    /\ exitCode = -1
    /\ keystore_path = None
    /\ devices = <<>>
    /\ active_devices = <<>>
    /\ idx = 0
    /\ success = TRUE
    /\ prev = NoPrev

\* Leave with the cleanup on the success path only (no finally)
LeaveCleanupOnSuccessOnly(value) ==
    ret' = value /\ pc' = IF value = "true" THEN "finally" ELSE "return"

\* try-block exits of process_apk (return / except) all pass through finally
Leave(value) == ret' = value /\ pc' = "finally"

\* main lines 290-296: the input must be a directory
MainStart ==
    /\ pc = "main"
    /\ IF ~req.input.dir
         THEN /\ exitCode' = 1
              /\ pc' = "exited"
         ELSE /\ pc' = "preflight"
              /\ UNCHANGED exitCode
    /\ UNCHANGED <<req, tools, fs, temp_dir, log, res, ret, keystore_path,
                   devices, active_devices, idx, success, prev>>

\* process_apk lines 245-250: the dependency gate, then mkdtemp
Preflight ==
    /\ pc = "preflight"
    /\ IF Missing(check_dependencies) # {}
         THEN /\ res' = [res EXCEPT !["preflight"] = "fail"]
              /\ ret' = "false"
              /\ pc' = "return"
              /\ UNCHANGED <<temp_dir, fs>>
         ELSE /\ res' = [res EXCEPT !["preflight"] = "ok"]
              /\ temp_dir' = TempDir
              /\ fs' = [fs EXCEPT !.tmpdir = TRUE]
              /\ pc' = "rebuild"
              /\ UNCHANGED ret
    /\ UNCHANGED <<req, tools, log, exitCode, keystore_path, devices, active_devices, idx,
                   success, prev>>

\* rebuild_apk lines 120-122: no manifest marker
RebuildNoManifest ==
    /\ pc = "rebuild"
    /\ ~HasManifest(req.input)
    /\ res' = [res EXCEPT !["rebuild"] = "fail"]
    /\ Leave("false")
    /\ UNCHANGED <<req, tools, fs, temp_dir, log, exitCode, keystore_path,
                   devices, active_devices, idx, success, prev>>

\* rebuild_apk lines 123-135: the first invocation of the rebuild tool
RebuildFirst ==
    /\ pc = "rebuild"
    /\ HasManifest(req.input)
    /\ \E o \in Outcomes :
         /\ log' = Append(log, Cmd(FirstBuildOp(req.input), InputDir, RebuiltApk, <<>>, o))
         /\ IF run_command(o)
              THEN /\ res' = [res EXCEPT !["rebuild"] = "ok"]
                   /\ pc' = "align"
              ELSE /\ pc' = "rebuild_fallback"
                   /\ UNCHANGED res
    /\ UNCHANGED <<req, tools, fs, temp_dir, ret, exitCode, keystore_path,
                   devices, active_devices, idx, success, prev>>

\* RebuildFallback whose result is not looked at: the pipeline goes on
RebuildFallbackContinues ==
    /\ pc = "rebuild_fallback"
    /\ \E o \in Outcomes :
         /\ log' = Append(log, Cmd("b", InputDir, RebuiltApk, <<>>, o))
         /\ res' = [res EXCEPT !["rebuild"] = IF run_command(o) THEN "ok" ELSE "fail"]
         /\ pc' = "align"
         /\ UNCHANGED ret
    /\ UNCHANGED <<req, tools, fs, temp_dir, exitCode, keystore_path,
                   devices, active_devices, idx, success, prev>>

\* rebuild_apk lines 131-133: the fallback invocation, whose result is the phase's
RebuildFallback ==
    /\ pc = "rebuild_fallback"
    /\ \E o \in Outcomes :
         /\ log' = Append(log, Cmd("b", InputDir, RebuiltApk, <<>>, o))
         /\ IF run_command(o)
              THEN /\ res' = [res EXCEPT !["rebuild"] = "ok"]
                   /\ pc' = "align"
                   /\ UNCHANGED ret
              ELSE /\ res' = [res EXCEPT !["rebuild"] = "fail"]
                   /\ Leave("false")
    /\ UNCHANGED <<req, tools, fs, temp_dir, exitCode, keystore_path,
                   devices, active_devices, idx, success, prev>>

\* AlignTransform that runs the transform again after a timeout
AlignTransformRetriesTimeout ==
    /\ pc = "align"
    /\ \E o \in Outcomes :
         /\ log' = Append(log, Cmd("align", RebuiltApk, AlignedApk, <<>>, o))
         /\ IF run_command(o)
              THEN /\ pc' = "align_check"
                   /\ UNCHANGED <<res, ret>>
              ELSE IF o = "timeout" /\ \A i \in DOMAIN log : log[i].op # "align"
                     THEN UNCHANGED <<res, ret, pc>>
                     ELSE /\ res' = [res EXCEPT !["align"] = "fail"]
                          /\ Leave("false")
    /\ UNCHANGED <<req, tools, fs, temp_dir, exitCode, keystore_path,
                   devices, active_devices, idx, success, prev>>

\* align_apk lines 139-143: the align transform
AlignTransform ==
    /\ pc = "align"
    /\ \E o \in Outcomes :
         /\ log' = Append(log, Cmd("align", RebuiltApk, AlignedApk, <<>>, o))
         /\ IF run_command(o)
              THEN /\ pc' = "align_check"
                   /\ UNCHANGED <<res, ret>>
              ELSE /\ res' = [res EXCEPT !["align"] = "fail"]
                   /\ Leave("false")
    /\ UNCHANGED <<req, tools, fs, temp_dir, exitCode, keystore_path,
                   devices, active_devices, idx, success, prev>>

\* align_apk lines 144-148: the alignment check on the produced artifact
AlignCheck ==
    /\ pc = "align_check"
    /\ \E o \in Outcomes :
         /\ log' = Append(log, Cmd("check", AlignedApk, "", <<>>, o))
         /\ IF run_command(o)
              THEN /\ res' = [res EXCEPT !["align"] = "ok"]
                   /\ pc' = "sign_keystore"
                   /\ UNCHANGED ret
              ELSE /\ res' = [res EXCEPT !["align"] = "fail"]
                   /\ Leave("false")
    /\ UNCHANGED <<req, tools, fs, temp_dir, exitCode, keystore_path,
                   devices, active_devices, idx, success, prev>>

\* ResolveKeystore that looks for the debug keystore before the explicit one
ResolveKeystoreDebugFirst ==
    /\ pc = "sign_keystore"
    /\ IF fs.debugKs
         THEN /\ keystore_path' = DebugKeystore
              /\ pc' = "sign"
         ELSE IF Truthy(req.keystore)
                THEN /\ keystore_path' = req.keystore
                     /\ pc' = "sign"
                ELSE /\ pc' = "keygen"
                     /\ UNCHANGED keystore_path
    /\ UNCHANGED <<req, tools, fs, temp_dir, log, res, ret, exitCode,
                   devices, active_devices, idx, success, prev>>

\* sign_apk line 152 and get_keystore lines 174-175: explicit keystore, else the
\* debug keystore if it exists, else generate one
ResolveKeystore ==
    /\ pc = "sign_keystore"
    /\ IF Truthy(req.keystore)
         THEN /\ keystore_path' = req.keystore
              /\ pc' = "sign"
         ELSE IF fs.debugKs
                THEN /\ keystore_path' = DebugKeystore
                     /\ pc' = "sign"
                ELSE /\ pc' = "keygen"
                     /\ UNCHANGED keystore_path
    /\ UNCHANGED <<req, tools, fs, temp_dir, log, res, ret, exitCode,
                   devices, active_devices, idx, success, prev>>

\* get_keystore lines 176-192 and sign_apk lines 153-154: key generation; the
\* keystore file is keytool's doing and is never looked at or removed, the
\* path returned is run_command's
GenerateKeystore ==
    /\ pc = "keygen"
    /\ \E o \in Outcomes : \E w \in Writes(o) :
         /\ log' = Append(log, [Cmd("genkey", "", TempKeystore, <<>>, o)
                                   EXCEPT !.wrote = w])
         /\ fs' = [fs EXCEPT !.tempKs = (fs.tempKs \/ w)]
         /\ IF run_command(o)
              THEN /\ keystore_path' = TempKeystore
                   /\ pc' = "sign"
                   /\ UNCHANGED <<res, ret>>
              ELSE /\ res' = [res EXCEPT !["sign"] = "fail"]
                   /\ Leave("false")
                   /\ UNCHANGED keystore_path
    /\ UNCHANGED <<req, tools, temp_dir, exitCode, devices, active_devices, idx, success, prev>>

\* sign_apk lines 156-166: the sign transform; the output path is the signing
\* tool's to write and is never looked at or removed, whatever run_command reports
SignTransform ==
    /\ pc = "sign"
    /\ \E o \in Outcomes : \E w \in Writes(o) :
         /\ log' = Append(log, [Cmd("sign", AlignedApk, req.output, <<>>, o)
                                   EXCEPT !.wrote = w])
         /\ fs' = [fs EXCEPT !.out = (fs.out \/ w)]
         /\ IF run_command(o)
              THEN /\ pc' = "sign_verify"
                   /\ UNCHANGED <<res, ret>>
              ELSE /\ res' = [res EXCEPT !["sign"] = "fail"]
                   /\ Leave("false")
    /\ UNCHANGED <<req, tools, temp_dir, exitCode, keystore_path,
                   devices, active_devices, idx, success, prev>>

\* sign_apk lines 167-171 and process_apk lines 263-267: signature verification,
\* and the end of the run when no install was asked for
SignVerify ==
    /\ pc = "sign_verify"
    /\ \E o \in Outcomes :
         /\ log' = Append(log, Cmd("verify", req.output, "", <<>>, o))
         /\ IF run_command(o)
              THEN /\ res' = [res EXCEPT !["sign"] = "ok"]
                   /\ IF req.install
                        THEN pc' = "install_list" /\ UNCHANGED ret
                        ELSE Leave("true")
              ELSE /\ res' = [res EXCEPT !["sign"] = "fail"]
                   /\ Leave("false")
    /\ UNCHANGED <<req, tools, fs, temp_dir, exitCode, keystore_path,
                   devices, active_devices, idx, success, prev>>

\* install_apk lines 211-220: the listing returned (any exit status)
ListDevices ==
    /\ pc = "install_list"
    /\ \E rc \in {"zero", "nonzero"}, out \in Stdouts :
         /\ log' = Append(log, Cmd("devices", "", "", <<>>, rc))
         /\ devices' = out
         /\ active_devices' = ActiveDevices(out)
         /\ IF ActiveDevices(out) = <<>>
              THEN /\ res' = [res EXCEPT !["install"] = "fail"]
                   /\ Leave("true")
                   /\ UNCHANGED <<idx, success>>
              ELSE /\ idx' = 1
                   /\ success' = TRUE
                   /\ pc' = "install_dev"
                   /\ UNCHANGED <<res, ret>>
    /\ UNCHANGED <<req, tools, fs, temp_dir, exitCode, keystore_path, prev>>

\* install_apk lines 211-215 with process_apk lines 268-270: subprocess.run is
\* called directly, so a bridge that cannot be launched, or whose listing does
\* not decode, raises out of install_apk
ListDevicesRaises ==
    /\ pc = "install_list"
    /\ \E o \in {"launcherr", "decodeerr"} :
         log' = Append(log, Cmd("devices", "", "", <<>>, o))
    /\ res' = [res EXCEPT !["install"] = "raised"]
    /\ Leave("false")
    /\ UNCHANGED <<req, tools, fs, temp_dir, exitCode, keystore_path,
                   devices, active_devices, idx, success, prev>>

\* install_apk lines 211-215: no timeout is given, a bridge that never exits
\* blocks the run
ListDevicesHangs ==
    /\ pc = "install_list"
    /\ log' = Append(log, Cmd("devices", "", "", <<>>, "hang"))
    /\ pc' = "blocked"
    /\ UNCHANGED <<req, tools, fs, temp_dir, res, ret, exitCode, keystore_path,
                   devices, active_devices, idx, success, prev>>

\* InstallDevice whose loop ends at the first failed install
InstallDeviceStopsOnFailure ==
    /\ pc = "install_dev"
    /\ \E o \in Outcomes :
         /\ log' = Append(log, Cmd("install", req.output, "", active_devices[idx], o))
         /\ success' = (success /\ run_command(o))
         /\ IF idx < Len(active_devices) /\ run_command(o)
              THEN /\ idx' = idx + 1
                   /\ UNCHANGED <<res, ret, pc>>
              ELSE /\ res' = [res EXCEPT !["install"] =
                                 IF success /\ run_command(o) THEN "ok" ELSE "fail"]
                   /\ Leave("true")
                   /\ UNCHANGED idx
    /\ UNCHANGED <<req, tools, fs, temp_dir, exitCode, keystore_path,
                   devices, active_devices, prev>>

\* install_apk lines 222-227 and process_apk lines 263-267: one install attempt
InstallDevice ==
    /\ pc = "install_dev"
    /\ \E o \in Outcomes :
         /\ log' = Append(log, Cmd("install", req.output, "", active_devices[idx], o))
         /\ success' = (success /\ run_command(o))
         /\ IF idx < Len(active_devices)
              THEN /\ idx' = idx + 1
                   /\ UNCHANGED <<res, ret, pc>>
              ELSE /\ res' = [res EXCEPT !["install"] =
                                 IF success /\ run_command(o) THEN "ok" ELSE "fail"]
                   /\ Leave("true")
                   /\ UNCHANGED idx
    /\ UNCHANGED <<req, tools, fs, temp_dir, exitCode, keystore_path,
                   devices, active_devices, prev>>

\* cleanup lines 229-235, called from the finally of process_apk
cleanup ==
    IF Truthy(temp_dir) /\ fs.tmpdir
      THEN \E removed \in BOOLEAN :
             /\ log' = Append(log, Cmd("rmtree", temp_dir, "", <<>>,
                                       IF removed THEN "zero" ELSE "raised"))
             /\ fs' = [fs EXCEPT !.tmpdir = ~removed]
      ELSE UNCHANGED <<log, fs>>

\* process_apk lines 271-272
Finally ==
    /\ pc = "finally"
    /\ cleanup
    /\ pc' = "return"
    /\ UNCHANGED <<req, tools, temp_dir, res, ret, exitCode, keystore_path,
                   devices, active_devices, idx, success, prev>>

\* main lines 297-303
MainReturn ==
    /\ pc = "return"
    /\ exitCode' = IF ret = "true" THEN 0 ELSE 1
    /\ pc' = "exited"
    /\ UNCHANGED <<req, tools, fs, temp_dir, log, res, ret, keystore_path,
                   devices, active_devices, idx, success, prev>>

\* what a finished run leaves for the next one to be compared with
Summary ==
    [ran |-> TRUE,
     keystore |-> keystore_path,
     generated |-> \E i \in DOMAIN log : log[i].op = "genkey" /\ log[i].wrote,
     exit |-> exitCode]

\* the tool is run again with the same request on the same machine: a new
\* process (APKReforge.__init__, lines 31-35), the files of the last run kept
NextRun ==
    /\ pc = "exited"
    /\ prev' = Summary
    /\ fs' = [fs EXCEPT !.tmpdir = FALSE]
    /\ pc' = "main"
    /\ temp_dir' = None
    /\ log' = <<>>
    /\ res' = NoResults
    /\ ret' = "none"
    /\ exitCode' = -1
    /\ keystore_path' = None
    /\ devices' = <<>>
    /\ active_devices' = <<>>
    /\ idx' = 0
    /\ success' = TRUE
    /\ UNCHANGED <<req, tools>>

\* the steps of one run of the tool
Step ==
    \/ MainStart
    \/ Preflight
    \/ RebuildNoManifest
    \/ RebuildFirst
    \/ RebuildFallback
    \/ AlignTransform
    \/ AlignCheck
    \/ ResolveKeystore
    \/ GenerateKeystore
    \/ SignTransform
    \/ SignVerify
    \/ ListDevices
    \/ ListDevicesRaises
    \/ ListDevicesHangs
    \/ InstallDevice
    \/ Finally
    \/ MainReturn

Next ==
    \/ Step
    \/ NextRun

\* any number of runs, one after the other
Spec == Init /\ [][Next]_vars

\* one run of the tool
SpecOneRun == Init /\ [][Step]_vars

-----------------------------------------------------------------------------
(* Properties *)

IsRebuild(c) == c.op \in {"b --use-aapt2", "b"}
IsAlign(c) == c.op = "align"
IsCheck(c) == c.op = "check"
IsGenkey(c) == c.op = "genkey"
IsSign(c) == c.op = "sign"
IsVerify(c) == c.op = "verify"
IsRmtree(c) == c.op = "rmtree"

\* process_apk was called and has returned
Returned == pc \in {"return", "exited"} /\ ret # "none"

MandatoryOk ==
    \A p \in {"preflight", "rebuild", "align", "sign"} : res[p] = "ok"

\* the output path was written by the current run
WroteOutput == \E i \in DOMAIN log : log[i].op = "sign" /\ log[i].wrote

\* C1: when a required tool is absent the run fails at the dependency gate:
\* process_apk returns false, no working area is ever allocated and no
\* external tool (rebuild, align, sign, keytool, adb) is invoked.
C1_MissingToolAborts ==
    tools # Tools =>
        /\ temp_dir = None
        /\ ~fs.tmpdir
        /\ log = <<>>
        /\ pc \in {"main", "preflight", "return", "exited"}
        /\ \A p \in Phases \ {"preflight"} : res[p] = "none"
        /\ Returned => ret = "false" /\ res["preflight"] = "fail"
        /\ pc = "exited" => exitCode = 1

C1_Witness ==
    /\ tools = Tools \ {"keytool"}
    /\ req.input.manifest
    /\ pc = "exited"
    /\ res["preflight"] = "fail"
    /\ exitCode = 1

\* C2: the run reports success (exit code 0) exactly when preflight, rebuild,
\* align and sign all succeeded, whatever happened in the Installing phase.
C2_SuccessIffMandatoryPhasesOk ==
    pc = "exited" => (exitCode = 0 <=> MandatoryOk)

\* C3: a run that ends in failure has written nothing to the output path; the
\* output path is written only by runs whose Signing phase succeeds.
C3_NoOutputUnlessSigned ==
    Returned =>
        /\ ret = "false" => ~WroteOutput
        /\ WroteOutput => res["sign"] = "ok"

\* C4: when the previous run completed and generated a keystore, and no
\* explicit keystore is given, this run resolves the same keystore without
\* invoking keytool.
C4_SecondRunReusesKeystore ==
    (prev.ran /\ prev.exit = 0 /\ prev.generated /\ req.keystore = None) =>
        /\ \A i \in DOMAIN log : log[i].op # "genkey"
        /\ keystore_path # None => keystore_path = prev.keystore

\* C5: a run that allocated a working area attempts its removal exactly once,
\* as the last thing before process_apk returns, on every exit path (success,
\* phase failure, exception); nothing is removed before that.
C5_CleanupExactlyOnce ==
    LET rm == SelectSeq(log, IsRmtree)
    IN  /\ (Returned /\ temp_dir # None) =>
              /\ Len(rm) = 1
              /\ log[Len(log)].op = "rmtree"
              /\ log[Len(log)].src = temp_dir
        /\ ~Returned => Len(rm) = 0
        /\ temp_dir = None => Len(rm) = 0

C5_Witness ==
    /\ pc = "exited"
    /\ res["install"] = "raised"
    /\ temp_dir # None
    /\ Len(SelectSeq(log, IsRmtree)) = 1
    /\ log[Len(log)].op = "rmtree"

\* the manifest states a target version of at least 34
HighTarget ==
    /\ req.input.manifest
    /\ req.input.readable
    /\ req.input.sdk # NoMatch
    /\ req.input.sdk >= 34

\* C6: with a target version >= 34 the first rebuild invocation uses the
\* preferred mode (--use-aapt2); if it succeeds there is no second one; if it
\* fails exactly one plain invocation follows and decides the phase; no run
\* invokes the rebuild tool more than twice.
C6_PreferredThenOneFallback ==
    LET b == SelectSeq(log, IsRebuild)
    IN  /\ Len(b) <= 2
        /\ (HighTarget /\ Len(b) >= 1) =>
              /\ b[1].op = "b --use-aapt2"
              /\ b[1].rc = "zero" => (Len(b) = 1 /\ res["rebuild"] = "ok")
              /\ (b[1].rc # "zero" /\ Len(b) = 1) =>
                    (pc = "rebuild_fallback" /\ res["rebuild"] = "none")
        /\ (HighTarget /\ Len(b) = 2) =>
              /\ b[1].rc # "zero"
              /\ b[2].op = "b"
              /\ res["rebuild"] = IF b[2].rc = "zero" THEN "ok" ELSE "fail"
        /\ (HighTarget /\ res["rebuild"] = "fail") => Len(b) = 2

C6_Witness ==
    LET b == SelectSeq(log, IsRebuild)
    IN  /\ HighTarget
        /\ req.input.sdk = 34
        /\ Len(b) = 2
        /\ b[1].op = "b --use-aapt2" /\ b[1].rc = "timeout"
        /\ b[2].op = "b" /\ b[2].rc = "nonzero"
        /\ pc = "exited"
        /\ exitCode = 1

\* C7: without the manifest marker the Rebuilding phase fails without any
\* rebuild invocation, the run reports failure, and no align, sign, keytool
\* or adb invocation is made.
C7_NoManifestNoInvocation ==
    (req.input.dir /\ ~req.input.manifest) =>
        /\ \A i \in DOMAIN log : log[i].op = "rmtree"
        /\ res["rebuild"] # "ok"
        /\ \A p \in {"align", "sign", "install"} : res[p] = "none"
        /\ (Returned /\ res["preflight"] = "ok") =>
              (res["rebuild"] = "fail" /\ ret = "false")
        /\ pc = "exited" => exitCode = 1

C7_Witness ==
    /\ req.input.dir
    /\ ~req.input.manifest
    /\ req.install
    /\ tools = Tools
    /\ res["rebuild"] = "fail"
    /\ pc = "exited"
    /\ exitCode = 1

\* C8: the Aligning phase succeeds iff the align transform and the alignment
\* check both exit zero; the check is invoked only right after a transform
\* that exited zero; transform zero and check non-zero fails phase and run.
C8_AlignTransformThenCheck ==
    LET a == SelectSeq(log, IsAlign)
        k == SelectSeq(log, IsCheck)
    IN  /\ Len(a) <= 1 /\ Len(k) <= 1
        /\ res["align"] = "ok" <=>
              (Len(a) = 1 /\ ExitedZero(a[1].rc) /\ Len(k) = 1 /\ ExitedZero(k[1].rc))
        /\ \A i \in DOMAIN log : log[i].op = "check" =>
              (i > 1 /\ log[i - 1].op = "align" /\ log[i - 1].rc = "zero"
                     /\ log[i].src = log[i - 1].dst)
        /\ (Len(a) = 1 /\ a[1].rc # "zero") => (Len(k) = 0 /\ res["align"] = "fail")
        /\ (Len(k) = 1 /\ k[1].rc # "zero") => res["align"] = "fail"
        /\ res["align"] = "fail" => (ret = "false" /\ (pc = "exited" => exitCode = 1))

\* C9: the Signing phase succeeds iff a keystore was resolved and the sign
\* transform and the signature verification both exit zero; verification is
\* invoked only right after a sign transform that exited zero, and neither is
\* invoked when no keystore could be resolved.
C9_SignTransformThenVerify ==
    LET g == SelectSeq(log, IsSign)
        v == SelectSeq(log, IsVerify)
        k == SelectSeq(log, IsGenkey)
    IN  /\ Len(g) <= 1 /\ Len(v) <= 1
        /\ res["sign"] = "ok" <=>
              /\ keystore_path # None
              /\ Len(g) = 1 /\ ExitedZero(g[1].rc)
              /\ Len(v) = 1 /\ ExitedZero(v[1].rc)
        /\ \A i \in DOMAIN log : log[i].op = "verify" =>
              (i > 1 /\ log[i - 1].op = "sign" /\ log[i - 1].rc = "zero"
                     /\ log[i].src = log[i - 1].dst)
        /\ Len(g) = 1 => Truthy(keystore_path)
        /\ (Len(k) >= 1 /\ k[Len(k)].rc # "zero") =>
              (keystore_path = None /\ Len(g) = 0 /\ Len(v) = 0 /\ res["sign"] = "fail")
        /\ (Len(g) = 1 /\ g[1].rc # "zero") => (Len(v) = 0 /\ res["sign"] = "fail")
        /\ (Len(v) = 1 /\ v[1].rc # "zero") => res["sign"] = "fail"

\* the phase an invocation belongs to, and the order of the phases
Ops ==
    {"b --use-aapt2", "b", "align", "check", "genkey", "sign", "verify",
     "devices", "install", "rmtree"}

OpPhase ==
    [op \in Ops |->
        CASE op \in {"b --use-aapt2", "b"} -> "rebuild"
          [] op \in {"align", "check"} -> "align"
          [] op \in {"genkey", "sign", "verify"} -> "sign"
          [] op \in {"devices", "install"} -> "install"
          [] OTHER -> "none"]

PhaseOf(c) == OpPhase[c.op]

PhaseRank ==
    [p \in Phases \cup {"none"} |->
        CASE p = "preflight" -> 0
          [] p = "rebuild" -> 1
          [] p = "align" -> 2
          [] p = "sign" -> 3
          [] p = "install" -> 4
          [] OTHER -> 5]

Rank(p) == PhaseRank[p]

\* C10: a phase's tools are invoked only when every preceding phase has
\* reported success; each phase reads the artifact its predecessor wrote
\* (unsigned -> aligned -> output); after a failed mandatory phase no tool of
\* a later phase is invoked.
C10_PhaseOrdering ==
    /\ \A p \in Phases : res[p] # "ok" =>
          \A i \in DOMAIN log :
              LET ph == PhaseOf(log[i])
              IN  ph \in Phases => Rank(ph) <= Rank(p)
    /\ \A i \in DOMAIN log :
          /\ IsRebuild(log[i]) =>
                \A j \in DOMAIN log : log[j].op = "align" =>
                    (i < j /\ log[j].src = log[i].dst)
          /\ log[i].op = "align" =>
                \A j \in DOMAIN log : log[j].op \in {"check", "sign"} =>
                    (i < j /\ log[j].src = log[i].dst)
          /\ log[i].op = "sign" =>
                \A j \in DOMAIN log : log[j].op \in {"verify", "install"} =>
                    (i < j /\ log[j].src = log[i].dst /\ log[i].dst = req.output)
    /\ \A p \in Phases \ {"install"} : res[p] = "fail" =>
          /\ \A i \in DOMAIN log :
                LET ph == PhaseOf(log[i])
                IN  ph \in Phases => Rank(ph) <= Rank(p)
          /\ \A q \in Phases : Rank(q) > Rank(p) => res[q] = "none"
          /\ pc \in {"finally", "return", "exited"}

C10_Witness ==
    /\ \E i \in DOMAIN log : log[i].op = "install" /\ log[i].src = OutputApk
    /\ Len(SelectSeq(log, IsRebuild)) = 2
    /\ \E i \in DOMAIN log : log[i].op = "genkey"
    /\ pc = "exited"
    /\ exitCode = 0

\* the bridge's listing was obtained in this run
Listed ==
    \E i \in DOMAIN log : log[i].op = "devices" /\ log[i].rc \in {"zero", "nonzero"}

\* the lines of the listing that report a target: "<id> TAB <state>"
TargetLines ==
    {i \in 2..Len(devices) : \E k \in DOMAIN devices[i] : devices[i][k] = Tab}

TabAt(d) == CHOOSE k \in DOMAIN d : d[k] = Tab /\ \A j \in 1..(k - 1) : d[j] # Tab
TargetId(d) == SubSeq(d, 1, TabAt(d) - 1)
ReportedState(d) == SubSeq(d, TabAt(d) + 1, Len(d))

\* the targets reported in state "device", and those an install was run on
EligibleIds ==
    {TargetId(devices[i]) :
        i \in {j \in TargetLines :
                 ReportedState(devices[j]) = <<"d", "e", "v", "i", "c", "e">>}}

Attempted == {log[i].target : i \in {j \in DOMAIN log : log[j].op = "install"}}

\* C11: installation is attempted on exactly the listed targets whose state
\* is "device", never on a target in another state; with no such target the
\* installer reports failure without invoking any install.
C11_OnlyReadyTargets ==
    LET eligible == EligibleIds
        attempted == Attempted
    IN  /\ attempted \subseteq eligible
        /\ pc = "install_dev" =>
              {active_devices[k] : k \in DOMAIN active_devices} = eligible
        /\ res["install"] \in {"ok", "fail"} => attempted = eligible
        /\ (Listed /\ eligible = {}) => (res["install"] = "fail" /\ attempted = {})

IsInstall(c) == c.op = "install"

\* C12: with at least one eligible target, every eligible target gets exactly
\* one install attempt whatever the other attempts did (non-zero exit,
\* timeout, launch error): the installer goes on while a listed target is
\* left, no target is attempted twice, and the installer's result is success
\* iff every attempt exited zero.
C12_EveryTargetOnce ==
    LET inst == SelectSeq(log, IsInstall)
        eligible == EligibleIds
        attempted == Attempted
    IN  /\ \A i, j \in DOMAIN inst : inst[i].target = inst[j].target => i = j
        /\ (Listed /\ eligible # {} /\ ~(eligible \subseteq attempted)) =>
              (pc = "install_dev" /\ res["install"] = "none")
        /\ pc = "install_dev" => Len(inst) < Len(active_devices)
        /\ (Listed /\ eligible # {} /\ pc # "install_dev") =>
              /\ eligible \subseteq attempted
              /\ Len(inst) = Len(active_devices)
              /\ res["install"] =
                    IF \A i \in DOMAIN inst : inst[i].rc = "zero" THEN "ok" ELSE "fail"

C12_Witness ==
    LET inst == SelectSeq(log, IsInstall)
    IN  /\ Cardinality(EligibleIds) = 2
        /\ Len(inst) = 2
        /\ inst[1].rc = "launcherr"
        /\ inst[2].rc = "zero"
        /\ res["install"] = "fail"
        /\ pc = "exited"
        /\ exitCode = 0

\* the invocations made through run_command
ViaRunCommand(c) == c.op \notin {"devices", "rmtree"}

\* entry i is the last invocation of the run, cleanup aside
LastInvocation(i) ==
    \/ i = Len(log)
    \/ i + 1 = Len(log) /\ log[i + 1].op = "rmtree"

\* C13: run_command gives true iff the process exits with status zero: a
\* zero exit is taken as true by the caller, a non-zero exit, a timeout and a
\* launch error each as false, and none of them raises into the caller.
C13_RunCommandBoolean ==
    /\ \A i \in DOMAIN log : ViaRunCommand(log[i]) =>
          /\ log[i].rc \in Outcomes
          /\ (~ExitedZero(log[i].rc)
                /\ log[i].op \in {"align", "check", "genkey", "sign", "verify"}) =>
                (res[PhaseOf(log[i])] = "fail" /\ ret = "false" /\ LastInvocation(i))
          /\ (~ExitedZero(log[i].rc) /\ IsRebuild(log[i])) =>
                \/ i = Len(log) /\ pc = "rebuild_fallback" /\ res["rebuild"] = "none"
                \/ i < Len(log) /\ log[i + 1].op = "b" /\ i = 1
                \/ i = 2 /\ res["rebuild"] = "fail" /\ ret = "false" /\ LastInvocation(i)
          /\ (~ExitedZero(log[i].rc) /\ log[i].op = "install") =>
                (~success /\ res["install"] \in {"none", "fail"})
          /\ (ExitedZero(log[i].rc) /\ i = Len(log) /\ log[i].op # "install") =>
                (res[PhaseOf(log[i])] # "fail" /\ ret # "false" /\ pc # "rebuild_fallback")
    /\ (\A i \in DOMAIN log : log[i].op = "install" => ExitedZero(log[i].rc)) =>
          (success /\ (res["install"] = "fail" => active_devices = <<>>))
    /\ \A p \in Phases : res[p] = "raised" =>
          /\ p = "install"
          /\ \E i \in DOMAIN log :
                /\ log[i].op = "devices"
                /\ log[i].rc \in {"launcherr", "decodeerr"}
                /\ LastInvocation(i)

\* C14: the plain-mode fallback is made only after a failed preferred-mode
\* (--use-aapt2) attempt; when the target version is below 34 or not
\* detectable the first invocation is plain and its failure fails the
\* Rebuilding phase without a second invocation.
C14_FallbackOnlyAfterPreferred ==
    LET b == SelectSeq(log, IsRebuild)
    IN  /\ \A i \in 2..Len(b) : b[i - 1].op = "b --use-aapt2" /\ b[i - 1].rc # "zero"
        /\ (~HighTarget /\ Len(b) >= 1) => (b[1].op = "b" /\ Len(b) = 1)
        /\ (~HighTarget /\ Len(b) >= 1 /\ b[1].rc # "zero" /\ Returned) =>
              res["rebuild"] = "fail"

\* C15: every run terminates: whatever the external tools do, the run reaches
\* its end (main has returned) and is never left waiting on an invocation.
C15_RunTerminates == pc = "exited" \/ ENABLED Step

\* an explicit keystore path was given with the request
KeystoreGiven == req.keystore \notin {None, ""}

\* C16: keytool is invoked only when the Signing phase was reached, no
\* explicit keystore path was given and the debug keystore does not exist,
\* and then at most once; an explicit path wins over the debug keystore, an
\* existing debug keystore is reused without generation, and a failed
\* generation fails the Signing phase without invoking the signing tool.
C16_KeystoreResolution ==
    LET k == SelectSeq(log, IsGenkey)
        g == SelectSeq(log, IsSign)
    IN  /\ Len(k) <= 1
        /\ Len(k) = 1 =>
              /\ \A p \in {"preflight", "rebuild", "align"} : res[p] = "ok"
              /\ ~KeystoreGiven
              /\ ~fs.debugKs
        /\ Len(g) >= 1 =>
              keystore_path = IF KeystoreGiven THEN req.keystore
                              ELSE IF fs.debugKs THEN DebugKeystore
                              ELSE TempKeystore
        /\ (Len(g) >= 1 /\ ~KeystoreGiven /\ ~fs.debugKs) =>
              (Len(k) = 1 /\ k[1].rc = "zero")
        /\ (Len(k) = 1 /\ k[1].rc # "zero") =>
              /\ res["sign"] = "fail"
              /\ ret = "false"
              /\ \A i \in DOMAIN log : log[i].op \notin {"sign", "verify"}

C16_Witness ==
    /\ KeystoreGiven
    /\ fs.debugKs
    /\ keystore_path = req.keystore
    /\ \E i \in DOMAIN log : log[i].op = "sign"
    /\ \A i \in DOMAIN log : log[i].op # "genkey"
    /\ pc = "exited"

\* removal of the working area was attempted and failed
RemovalFailed == \E i \in DOMAIN log : log[i].op = "rmtree" /\ log[i].rc = "raised"

\* C17: a failed removal of the working area never changes the result: a run
\* whose mandatory phases all succeeded still reports success (process_apk
\* returns true, exit code 0) when the removal fails.
C17_RemovalFailureKeepsSuccess ==
    (Returned /\ RemovalFailed /\ MandatoryOk) =>
        (ret = "true" /\ (pc = "exited" => exitCode = 0))

Count(op) == Cardinality({i \in DOMAIN log : log[i].op = op})

\* C18: only the rebuild is ever retried: align, alignment check, sign,
\* verification and key generation are each invoked at most once per run and
\* the install at most once per target, however the invocation failed; a
\* timeout (or launch error) of the first rebuild attempt leads to the
\* fallback exactly as a non-zero exit does.
C18_NoRetryButRebuild ==
    LET b == SelectSeq(log, IsRebuild)
        inst == SelectSeq(log, IsInstall)
    IN  /\ \A op \in {"align", "check", "sign", "verify", "genkey"} : Count(op) <= 1
        /\ \A i, j \in DOMAIN inst : inst[i].target = inst[j].target => i = j
        /\ \A i \in DOMAIN log :
              (log[i].rc # "zero" /\ log[i].op \in {"align", "check", "sign", "verify", "genkey"})
                  => LastInvocation(i)
        /\ Len(b) <= 2
        /\ (Len(b) >= 1 /\ b[1].rc \in {"nonzero", "timeout", "launcherr"}) =>
              \/ Len(b) = 1 /\ pc = "rebuild_fallback"
              \/ Len(b) = 2 /\ b[2].op = "b"
        /\ (Len(b) >= 1 /\ b[1].rc = "zero") => Len(b) = 1

C18_Witness ==
    LET b == SelectSeq(log, IsRebuild)
    IN  /\ Len(b) = 2
        /\ b[1].rc = "timeout"
        /\ b[2].rc = "zero"
        /\ \E i \in DOMAIN log : log[i].op = "sign" /\ log[i].rc = "timeout"
        /\ Count("sign") = 1
        /\ pc = "exited"

\* C19: the dependency gate asks for all five tools whatever the request: the
\* run passes preflight iff all five are present, so it aborts when adb is
\* absent although no install was requested, and when keytool is absent
\* although an explicit keystore was given or the debug keystore exists.
C19_GateUnconditional ==
    /\ res["preflight"] # "none" =>
          (res["preflight"] = "ok" <=> \A t \in Tools : t \in tools)
    /\ (res["preflight"] # "none" /\ "adb" \notin tools /\ ~req.install) =>
          (res["preflight"] = "fail" /\ ret = "false" /\ log = <<>>)
    /\ (res["preflight"] # "none" /\ "keytool" \notin tools
            /\ (KeystoreGiven \/ fs.debugKs)) =>
          (res["preflight"] = "fail" /\ ret = "false" /\ log = <<>>)

C19_Witness ==
    /\ tools = Tools \ {"adb"}
    /\ ~req.install
    /\ req.input.manifest
    /\ res["preflight"] = "fail"
    /\ ret = "false"
    /\ pc = "exited"
    /\ exitCode = 1

=============================================================================
